---- MODULE Spec2Model ----
(***************************************************************************)
(* Model of tensorflow/tools/api/generator/create_python_api.py:           *)
(* format_import, _ModuleInitCodeBuilder (add_import, build),              *)
(* get_api_init_text and create_api_files.                                  *)
(*                                                                         *)
(* Python strings are TLA+ strings; a dict is a function whose DOMAIN is   *)
(* the set of keys; a Python set is a set; a list is a sequence.           *)
(***************************************************************************)
EXTENDS Integers, Sequences, FiniteSets, TLC

(***************************************************************************)
(* Bounds of the model.                                                    *)
(***************************************************************************)
\* number of successful add_import calls made on one builder
MaxAdds == 3

(***************************************************************************)
(* Python string primitives.                                               *)
(***************************************************************************)
\* the ASCII characters of code points 32..95, in order
AsciiLow ==
  " !\"#$%&'()*+,-./0123456789:;<=>?@ABCDEFGHIJKLMNOPQRSTUVWXYZ[\\]^_"

\* the ASCII characters of code points 97..126, in order
AsciiHigh == "abcdefghijklmnopqrstuvwxyz{|}~"

\* code point of a one-character string (ord)
Ord(c) ==
  IF c = "\n" THEN 10
  ELSE IF \E i \in 1..Len(AsciiLow) : SubSeq(AsciiLow, i, i) = c
  THEN 31 + (CHOOSE i \in 1..Len(AsciiLow) : SubSeq(AsciiLow, i, i) = c)
  ELSE 96 + (CHOOSE i \in 1..Len(AsciiHigh) : SubSeq(AsciiHigh, i, i) = c)

\* s[i] for a string, 1-based
CharAt(s, i) == SubSeq(s, i, i)

\* Python's str.__lt__: comparison by code points, a proper prefix is smaller
RECURSIVE StrLess(_, _)
StrLess(s, t) ==
  IF t = "" THEN FALSE
  ELSE IF s = "" THEN TRUE
  ELSE IF CharAt(s, 1) = CharAt(t, 1) THEN StrLess(Tail(s), Tail(t))
  ELSE Ord(CharAt(s, 1)) < Ord(CharAt(t, 1))

StrLeq(s, t) == s = t \/ StrLess(s, t)

\* s.startswith(p)
StartsWith(s, p) == Len(p) <= Len(s) /\ SubSeq(s, 1, Len(p)) = p

\* s.endswith(p)
EndsWith(s, p) == Len(p) <= Len(s) /\ SubSeq(s, Len(s) - Len(p) + 1, Len(s)) = p

\* p in s
Contains(s, p) == \E i \in 1..(Len(s) - Len(p) + 1) : SubSeq(s, i, i + Len(p) - 1) = p

\* sep.join(list)
RECURSIVE Join(_, _)
Join(sep, list) ==
  IF list = <<>> THEN ""
  ELSE IF Len(list) = 1 THEN list[1]
  ELSE list[1] \o sep \o Join(sep, Tail(list))

\* s.split(sep) for a one-character sep
RECURSIVE SplitOn(_, _)
SplitOn(s, sep) ==
  IF ~Contains(s, sep) THEN <<s>>
  ELSE LET i == CHOOSE i \in 1..Len(s) :
                  /\ CharAt(s, i) = sep
                  /\ \A j \in 1..(i - 1) : CharAt(s, j) # sep
       IN <<SubSeq(s, 1, i - 1)>> \o SplitOn(SubSeq(s, i + 1, Len(s)), sep)

\* s.split('.')
SplitDots(s) == SplitOn(s, ".")

\* s.replace(old, new) for a one-character old
RECURSIVE Replace(_, _, _)
Replace(s, old, new) ==
  IF s = "" THEN ""
  ELSE (IF CharAt(s, 1) = old THEN new ELSE CharAt(s, 1))
       \o Replace(Tail(s), old, new)

\* s.rfind(p) + 1: the 1-based position of the last occurrence, 0 if none
RFind(s, p) ==
  LET at == {i \in 1..(Len(s) - Len(p) + 1) : SubSeq(s, i, i + Len(p) - 1) = p}
  IN IF at = {} THEN 0 ELSE CHOOSE i \in at : \A j \in at : j <= i

\* s.rstrip(c) and s.lstrip(c) and s.strip(c) for a one-character c
RECURSIVE RStrip(_, _)
RStrip(s, c) ==
  IF s # "" /\ CharAt(s, Len(s)) = c THEN RStrip(SubSeq(s, 1, Len(s) - 1), c)
  ELSE s

RECURSIVE LStrip(_, _)
LStrip(s, c) ==
  IF s # "" /\ CharAt(s, 1) = c THEN LStrip(Tail(s), c) ELSE s

Strip(s, c) == LStrip(RStrip(s, c), c)

\* os.sep
OsSep == "/"

\* os.path.dirname(path)
Dirname(path) ==
  LET head == SubSeq(path, 1, RFind(path, "/"))
  IN IF head # "" /\ RStrip(head, "/") # "" THEN RStrip(head, "/") ELSE head

\* the components os.path.normpath keeps, in order
RECURSIVE NormComps(_, _, _)
NormComps(comps, new_comps, initial_slashes) ==
  IF comps = <<>> THEN new_comps
  ELSE LET comp == Head(comps)
       IN IF comp = "" \/ comp = "."
          THEN NormComps(Tail(comps), new_comps, initial_slashes)
          ELSE IF \/ comp # ".."
                  \/ (initial_slashes = 0 /\ new_comps = <<>>)
                  \/ (new_comps # <<>> /\ new_comps[Len(new_comps)] = "..")
          THEN NormComps(Tail(comps), Append(new_comps, comp), initial_slashes)
          ELSE IF new_comps # <<>>
          THEN NormComps(Tail(comps), SubSeq(new_comps, 1, Len(new_comps) - 1),
                         initial_slashes)
          ELSE NormComps(Tail(comps), new_comps, initial_slashes)

\* os.path.normpath(path)
Normpath(path) ==
  IF path = "" THEN "."
  ELSE LET initial_slashes ==
             IF ~StartsWith(path, "/") THEN 0
             ELSE IF StartsWith(path, "//") /\ ~StartsWith(path, "///") THEN 2
             ELSE 1
           joined == Join("/", NormComps(SplitOn(path, "/"), <<>>, initial_slashes))
           result == (IF initial_slashes = 2 THEN "//"
                      ELSE IF initial_slashes = 1 THEN "/" ELSE "") \o joined
       IN IF result = "" THEN "." ELSE result

\* sorted(list of strings) of the values f[k], k in keys (duplicates kept)
RECURSIVE SortedValues(_, _)
SortedValues(f, keys) ==
  IF keys = {} THEN <<>>
  ELSE LET k == CHOOSE k \in keys : \A m \in keys : StrLeq(f[k], f[m])
       IN <<f[k]>> \o SortedValues(f, keys \ {k})

(***************************************************************************)
(* format_import                                                           *)
(***************************************************************************)
\* format_import with a slip: the alias is left out
format_import_AliasDropped(source_module_name, source_name, dest_name) ==
  IF source_module_name # ""
  THEN "from " \o source_module_name \o " import " \o source_name
  ELSE "import " \o source_name

format_import(source_module_name, source_name, dest_name) ==
  IF source_module_name # ""
  THEN IF source_name = dest_name
       THEN "from " \o source_module_name \o " import " \o source_name
       ELSE "from " \o source_module_name \o " import " \o source_name
              \o " as " \o dest_name
  ELSE IF source_name = dest_name
       THEN "import " \o source_name
       ELSE "import " \o source_name \o " as " \o dest_name

(***************************************************************************)
(* _ModuleInitCodeBuilder                                                  *)
(***************************************************************************)
\* the "no identity check" symbol id
NoCheckId == -1

\* _ModuleInitCodeBuilder.__init__: three empty containers
NewBuilder ==
  [module_imports |-> <<>>,
   dest_import_to_id |-> <<>>,
   underscore_names_in_root |-> <<>>]

\* full_api_name of add_import
FullApiName(dest_module_name, dest_name) ==
  IF dest_module_name # "" THEN dest_module_name \o "." \o dest_name
  ELSE dest_name

\* ExposedTwice with a slip: a recorded sentinel is exempt from the check
ExposedTwice_RecordedSentinelExempt(dest_import_to_id, full_api_name, symbol_id) ==
  /\ full_api_name \in DOMAIN dest_import_to_id
  /\ symbol_id # dest_import_to_id[full_api_name]
  /\ symbol_id # NoCheckId
  /\ dest_import_to_id[full_api_name] # NoCheckId

\* ExposedTwice with a slip: the sentinel is checked like any other id
ExposedTwice_SentinelChecked(dest_import_to_id, full_api_name, symbol_id) ==
  /\ full_api_name \in DOMAIN dest_import_to_id
  /\ symbol_id # dest_import_to_id[full_api_name]

\* the condition under which add_import raises SymbolExposedTwiceError
ExposedTwice(dest_import_to_id, full_api_name, symbol_id) ==
  /\ full_api_name \in DOMAIN dest_import_to_id
  /\ symbol_id # dest_import_to_id[full_api_name]
  /\ symbol_id # NoCheckId

\* self._dest_import_to_id[full_api_name] = symbol_id
RecordId(dest_import_to_id, full_api_name, symbol_id) ==
  [n \in DOMAIN dest_import_to_id \cup {full_api_name} |->
     IF n = full_api_name THEN symbol_id ELSE dest_import_to_id[n]]

\* NoteUnderscore with a slip: the destination module is not looked at
NoteUnderscore_AnyModule(underscore_names_in_root, dest_module_name, dest_name) ==
  IF StartsWith(dest_name, "_")
  THEN Append(underscore_names_in_root, dest_name)
  ELSE underscore_names_in_root

\* the underscore-name bookkeeping of add_import
NoteUnderscore(underscore_names_in_root, dest_module_name, dest_name) ==
  IF dest_module_name = "" /\ StartsWith(dest_name, "_")
  THEN Append(underscore_names_in_root, dest_name)
  ELSE underscore_names_in_root

\* self.module_imports[dest_module_name][full_api_name].add(import_str)
\* on a defaultdict of defaultdicts of sets
InsertImport(module_imports, dest_module_name, full_api_name, import_str) ==
  LET old_names == IF dest_module_name \in DOMAIN module_imports
                   THEN module_imports[dest_module_name] ELSE <<>>
      old_set == IF full_api_name \in DOMAIN old_names
                 THEN old_names[full_api_name] ELSE {}
      new_names == [n \in DOMAIN old_names \cup {full_api_name} |->
                      IF n = full_api_name THEN old_set \cup {import_str}
                      ELSE old_names[n]]
  IN [m \in DOMAIN module_imports \cup {dest_module_name} |->
        IF m = dest_module_name THEN new_names ELSE module_imports[m]]

\* add_import with a slip: the id is recorded before the check raises
add_import_RecordsFirst(self, symbol_id, dest_module_name, source_module_name, source_name, dest_name) ==
  LET import_str == format_import(source_module_name, source_name, dest_name)
      full_api_name == FullApiName(dest_module_name, dest_name)
      recorded == RecordId(self.dest_import_to_id, full_api_name, symbol_id)
  IN IF ExposedTwice(self.dest_import_to_id, full_api_name, symbol_id)
     THEN [raised |-> TRUE, self |-> [self EXCEPT !.dest_import_to_id = recorded]]
     ELSE [raised |-> FALSE,
           self |->
             [module_imports |->
                InsertImport(self.module_imports, dest_module_name,
                             full_api_name, import_str),
              dest_import_to_id |-> recorded,
              underscore_names_in_root |->
                NoteUnderscore(self.underscore_names_in_root,
                               dest_module_name, dest_name)]]

\* add_import: the result is the exception flag and the builder afterwards
add_import(self, symbol_id, dest_module_name, source_module_name, source_name, dest_name) ==
  LET import_str == format_import(source_module_name, source_name, dest_name)
      full_api_name == FullApiName(dest_module_name, dest_name)
  IN IF ExposedTwice(self.dest_import_to_id, full_api_name, symbol_id)
     THEN [raised |-> TRUE, self |-> self]
     ELSE [raised |-> FALSE,
           self |->
             [module_imports |->
                InsertImport(self.module_imports, dest_module_name,
                             full_api_name, import_str),
              dest_import_to_id |->
                RecordId(self.dest_import_to_id, full_api_name, symbol_id),
              underscore_names_in_root |->
                NoteUnderscore(self.underscore_names_in_root,
                               dest_module_name, dest_name)]]

\* PickImport with a slip: sorted(imports)[-1]
PickImport_Last(imports) ==
  CHOOSE s \in imports : \A t \in imports : StrLeq(t, s)

\* sorted(imports)[0]
PickImport(imports) ==
  CHOOSE s \in imports : \A t \in imports : StrLeq(s, t)

\* ModuleBody with a slip: every spelling of every name is emitted
ModuleBody_AllSpellings(dest_name_to_imports) ==
  LET all == UNION {dest_name_to_imports[n] : n \in DOMAIN dest_name_to_imports}
  IN Join("\n", SortedValues([x \in all |-> x], all))

\* '\n'.join(sorted(imports_list)) for one destination module
ModuleBody(dest_name_to_imports) ==
  LET picked == [n \in DOMAIN dest_name_to_imports |->
                   PickImport(dest_name_to_imports[n])]
  IN Join("\n", SortedValues(picked, DOMAIN picked))

\* ', '.join("'%s'" % name for name in names)
RECURSIVE QuotedNames(_)
QuotedNames(names) ==
  IF names = <<>> THEN ""
  ELSE IF Len(names) = 1 THEN "'" \o names[1] \o "'"
  ELSE "'" \o names[1] \o "', " \o QuotedNames(Tail(names))

\* the text build() appends to the root module
Epilogue(underscore_names_in_root) ==
  "\n_names_with_underscore = [" \o QuotedNames(underscore_names_in_root)
    \o "]\n__all__ = [s for s in dir() if not s.startswith('_')]"
    \o "\n__all__.extend([s for s in _names_with_underscore])\n"

\* build: module_text_map[''] += ... raises KeyError when the plain dict
\* module_text_map has no key ''
build(self) ==
  LET bodies == [m \in DOMAIN self.module_imports |->
                   ModuleBody(self.module_imports[m])]
  IN IF "" \notin DOMAIN bodies
     THEN [error |-> "KeyError", module_text_map |-> <<>>]
     ELSE [error |-> "none",
           module_text_map |->
             [m \in DOMAIN bodies |->
                IF m = "" THEN bodies[m] \o Epilogue(self.underscore_names_in_root)
                ELSE bodies[m]]]

(***************************************************************************)
(* State.                                                                  *)
(***************************************************************************)
VARIABLES
  builder,          \* the _ModuleInitCodeBuilder object
  call,             \* the last call made on the builder and the exception it raised
  module_text_map,  \* the mapping returned by the last call, if it was a build()
  ok_ids,           \* history: full name -> ids of the adds that did not raise
  ok_imports,       \* history: full name -> import_str of the adds that did not raise
  added,            \* history: <<dest_module_name, dest_name>> of the adds that
                    \* did not raise, in call order
  runs,             \* two generation runs over the same declarations: for each,
                    \* its own builder, the declarations fed to it so far and
                    \* whether an add raised (which ends the run)
  sys_modules,      \* sys.modules.values(): the loaded modules
  module_filter,    \* the module_filter argument
  scan,             \* the get_api_init_text call: its position, its locals,
                    \* its result and the add_import calls it has issued
  output_files,     \* the output_files argument of create_api_files
  fs,               \* the file system: the content of each file, the directories
  files_run,        \* the create_api_files call: its position, its locals, the
                    \* exception it raised and the file system it started from
  fmt               \* a format_import call: its arguments, its position and
                    \* the string it returned

builder_vars == <<builder, call, module_text_map, ok_ids, ok_imports, added>>

scan_vars == <<sys_modules, module_filter, scan>>

file_vars == <<output_files, fs, files_run>>

vars ==
  <<builder, call, module_text_map, ok_ids, ok_imports, added, runs,
    sys_modules, module_filter, scan, output_files, fs, files_run, fmt>>

\* arguments the callers of add_import are drawn from
SymbolIds == {NoCheckId, 1, 2}
Dests == {<<"", "X">>, <<"nn", "_y">>}
SourceModules == {"m", "k"}
SourceNames == {"X"}

\* arguments of the runs that look at the root module's underscore names
NameIds == {NoCheckId, 1}
NameDests == {<<"", "X">>, <<"", "_y">>, <<"", "_z">>, <<"nn", "_y">>}
NameSourceModules == {"m"}

NoCall == [op |-> "none", error |-> "none"]

\* a generation run that has not added anything yet
NewRun == [builder |-> NewBuilder, fed |-> {}, raised |-> FALSE]

\* a file system without files
EmptyFs == [files |-> <<>>, dirs |-> {}]

\* create_api_files before it is called
IdleFilesRun ==
  [pc |-> "idle", module_name_to_file_path |-> <<>>, to_create |-> {},
   module_text_map |-> <<>>, to_write |-> {}, missing_output_files |-> <<>>,
   error |-> "none", message |-> "", fs_before |-> EmptyFs]

\* format_import before it is called
IdleFormat ==
  [pc |-> "idle", source_module_name |-> "", source_name |-> "",
   dest_name |-> "", result |-> ""]

\* get_api_init_text before it is called
IdleScan ==
  [pc |-> "idle", builder |-> NewBuilder, todo |-> {}, imported_modules |-> {},
   exports |-> <<>>, parents |-> <<>>, result |-> <<>>, error |-> "none"]

\* history update: s added to the set recorded for key n
Noted(f, n, s) ==
  [k \in DOMAIN f \cup {n} |->
     IF k = n THEN (IF n \in DOMAIN f THEN f[n] ELSE {}) \cup {s} ELSE f[k]]

Init ==
  /\ builder = NewBuilder
  /\ call = NoCall
  /\ module_text_map = <<>>
  /\ ok_ids = <<>>
  /\ ok_imports = <<>>
  /\ added = <<>>
  /\ runs = [i \in {1, 2} |-> NewRun]
  /\ sys_modules = {}
  /\ module_filter = ""
  /\ scan = IdleScan
  /\ output_files = <<>>
  /\ fs = EmptyFs
  /\ files_run = IdleFilesRun
  /\ fmt = IdleFormat

\* one call of builder.add_import(...) with arguments from the given sets
AddImportFrom(ids, dests, source_modules) ==
  \E symbol_id \in ids, dest \in dests,
     source_module_name \in source_modules, source_name \in SourceNames :
    LET dest_module_name == dest[1]
        dest_name == dest[2]
        r == add_import(builder, symbol_id, dest_module_name,
                        source_module_name, source_name, dest_name)
        n == FullApiName(dest_module_name, dest_name)
        s == format_import(source_module_name, source_name, dest_name)
    IN /\ Len(added) < MaxAdds
       /\ builder' = r.self
       /\ call' = [op |-> "add_import",
                   error |-> IF r.raised THEN "SymbolExposedTwiceError"
                             ELSE "none"]
       /\ IF r.raised
          THEN UNCHANGED <<ok_ids, ok_imports, added>>
          ELSE /\ ok_ids' = Noted(ok_ids, n, symbol_id)
               /\ ok_imports' = Noted(ok_imports, <<dest_module_name, n>>, s)
               /\ added' = Append(added, <<dest_module_name, dest_name>>)
       /\ module_text_map' = <<>>
       /\ UNCHANGED <<runs, scan_vars, file_vars, fmt>>

AddImport == AddImportFrom(SymbolIds, Dests, SourceModules)

AddNamed == AddImportFrom(NameIds, NameDests, NameSourceModules)

\* Build with a slip: build() consumes the underscore names it has emitted
Build_ConsumesUnderscoreNames ==
  LET r == build(builder)
  IN /\ call' = [op |-> "build", error |-> r.error]
     /\ module_text_map' = r.module_text_map
     /\ builder' = [builder EXCEPT !.underscore_names_in_root = <<>>]
     /\ UNCHANGED <<ok_ids, ok_imports, added, runs, scan_vars, file_vars, fmt>>

\* one call of builder.build()
Build ==
  LET r == build(builder)
  IN /\ call' = [op |-> "build", error |-> r.error]
     /\ module_text_map' = r.module_text_map
     /\ UNCHANGED <<builder, ok_ids, ok_imports, added, runs, scan_vars, file_vars, fmt>>

Next == AddImport \/ Build

Spec == Init /\ [][Next]_vars

NextNames == AddNamed \/ Build

SpecNames == Init /\ [][NextNames]_vars

\* arguments of the runs that look at the shape of the module bodies: two
\* names in the root module, each importable from two source modules
BodyIds == {NoCheckId, 1}
BodyDests == {<<"", "X">>, <<"", "_y">>, <<"nn", "_y">>}

AddBody == AddImportFrom(BodyIds, BodyDests, SourceModules)

NextBodies == AddBody \/ Build

SpecBodies == Init /\ [][NextBodies]_vars

(***************************************************************************)
(* Two runs fed the same export declarations in their own orders.          *)
(***************************************************************************)
\* declarations a run can be fed per run
MaxFed == 3

\* the export declarations the two runs draw from
Declarations ==
  [symbol_id : {NoCheckId, 1}, dest_module_name : {""},
   source_module_name : {"m"}, source_name : {"X"}, dest_name : {"_y", "_z"}]

\* run i adds one more declaration; a SymbolExposedTwiceError ends the run
Feed(i) ==
  \E decl \in Declarations \ runs[i].fed :
    LET r == add_import(runs[i].builder, decl.symbol_id, decl.dest_module_name,
                        decl.source_module_name, decl.source_name,
                        decl.dest_name)
    IN /\ ~runs[i].raised
       /\ Cardinality(runs[i].fed) < MaxFed
       /\ runs' = [runs EXCEPT ![i] = [builder |-> r.self,
                                      fed |-> runs[i].fed \cup {decl},
                                      raised |-> r.raised]]
       /\ UNCHANGED <<builder_vars, scan_vars, file_vars, fmt>>

FeedFirst == Feed(1)

FeedSecond == Feed(2)

NextOrder == FeedFirst \/ FeedSecond

SpecOrder == Init /\ [][NextOrder]_vars

\* C3: determinism under reordering: two runs over the same set of
\* declarations either both raise the conflict error or both succeed with
\* build() returning the same text for every destination module.  (A run
\* that raised on some declarations raises in every order that extends it.)
C3_OrderIndependent ==
  \A i \in {1, 2}, j \in {1, 2} :
    /\ (runs[i].raised /\ runs[i].fed \subseteq runs[j].fed) => runs[j].raised
    /\ (runs[i].fed = runs[j].fed /\ ~runs[i].raised /\ ~runs[j].raised)
         => build(runs[i].builder) = build(runs[j].builder)

(***************************************************************************)
(* get_api_init_text                                                       *)
(***************************************************************************)
API_CONSTANTS_ATTR == "_tf_api_constants"

OUTPUT_MODULE == "tensorflow.tools.api.generator.api"

\* modules of sys.modules a run is started with
MaxModules == 3

\* tf_decorator.unwrap(attr)[1]: the object under the decorators
unwrap(attr) == attr.target

\* an object with _tf_api_names in its __dict__, bound directly
Symbol(id, tf_api_names) ==
  [id |-> id,
   target |-> [id |-> id, has_api_names |-> TRUE, tf_api_names |-> tf_api_names]]

\* the same behind a decorator object with its own identity
Decorated(decorator_id, id, tf_api_names) ==
  [id |-> decorator_id,
   target |-> [id |-> id, has_api_names |-> TRUE, tf_api_names |-> tf_api_names]]

\* an attribute without _tf_api_names
Plain(id) ==
  [id |-> id,
   target |-> [id |-> id, has_api_names |-> FALSE, tf_api_names |-> <<>>]]

Module(name, attrs) == [has_name |-> TRUE, name |-> name, attrs |-> attrs]

ModuleA ==
  Module("tensorflow.a",
         [_tf_api_constants |-> << [exports |-> <<"a.b.c.K", "K">>, value |-> "K"] >>,
          f |-> Decorated(9, 1, <<"nn.sub.X">>),
          p |-> Plain(8)])

ModuleB == Module("tensorflow.b", [f |-> Symbol(1, <<"nn.sub.X", "_f">>)])

ModuleC == Module("tensorflow.c", [g |-> Symbol(2, <<"nn.sub.X">>)])

ModuleS == Module("tensorflow.s", [sub |-> Symbol(4, <<"nn.sub">>)])

ModuleContribD == Module("tensorflow.contrib.d", [q |-> Symbol(5, <<"zz.Q">>)])

ModuleContrib == Module("tensorflow.contrib", [q |-> Symbol(6, <<"yy.Q">>)])

ModuleNumpy == Module("numpy.core", [q |-> Symbol(7, <<"np.Q">>)])

\* an entry of sys.modules that is None or has no __name__
ModuleNone == [has_name |-> FALSE, name |-> "", attrs |-> <<>>]

\* the modules a run's sys.modules is drawn from
ModulePool ==
  {ModuleA, ModuleB, ModuleC, ModuleS, ModuleContribD, ModuleContrib,
   ModuleNumpy, ModuleNone}

ModuleFilters == {"tensorflow.", ".b"}

\* the concatenation of a sequence of sequences
RECURSIVE Flatten(_)
Flatten(seqs) ==
  IF seqs = <<>> THEN <<>> ELSE Head(seqs) \o Flatten(Tail(seqs))

\* the arguments of the add_import call made for one export path
ExportCall(symbol_id, module_name, source_name, export) ==
  LET names == SplitDots(export)
  IN [symbol_id |-> symbol_id,
      dest_module_name |-> Join(".", SubSeq(names, 1, Len(names) - 1)),
      source_module_name |-> module_name,
      source_name |-> source_name,
      dest_name |-> names[Len(names)]]

\* the calls made for the _tf_api_constants attribute
ConstantCalls(module_name, attr) ==
  Flatten([i \in 1..Len(attr) |->
             [j \in 1..Len(attr[i].exports) |->
                ExportCall(NoCheckId, module_name, attr[i].value,
                           attr[i].exports[j])]])

\* the calls made for any other attribute
SymbolCalls(module_name, module_contents_name, attr) ==
  LET obj == unwrap(attr)
  IN IF obj.has_api_names
     THEN [j \in 1..Len(obj.tf_api_names) |->
             ExportCall(obj.id, module_name, module_contents_name,
                        obj.tf_api_names[j])]
     ELSE <<>>

\* dir(module): the attribute names in ascending order
Dir(module) ==
  SortedValues([n \in DOMAIN module.attrs |-> n], DOMAIN module.attrs)

\* the calls the body of the loop over sys.modules makes for one module
ModuleCalls(module) ==
  LET names == Dir(module)
  IN Flatten([i \in 1..Len(names) |->
                IF names[i] = API_CONSTANTS_ATTR
                THEN ConstantCalls(module.name, module.attrs[names[i]])
                ELSE SymbolCalls(module.name, names[i], module.attrs[names[i]])])

\* Skipped with a slip: a module named '<x>.contrib' is scanned
Skipped_ContribPackageScanned(module, filter) ==
  \/ ~module.has_name
  \/ ~Contains(module.name, filter)
  \/ Contains(module.name, ".contrib.")

\* the two continue conditions of the loop over sys.modules
Skipped(module, filter) ==
  \/ ~module.has_name
  \/ ~Contains(module.name, filter)
  \/ Contains(module.name, ".contrib.")
  \/ EndsWith(module.name, ".contrib")

\* parent_module after the iteration with submodule_index = k (0-based)
RECURSIVE ParentModule(_, _)
ParentModule(module_split, k) ==
  IF k = 0 THEN ""
  ELSE LET before == ParentModule(module_split, k - 1)
       IN IF before # "" THEN before \o "." \o module_split[k]
          ELSE module_split[k]

\* the calls the loop over range(len(module_split)) makes for one module
ParentCalls(module) ==
  LET module_split == SplitDots(module)
  IN [i \in 1..Len(module_split) |->
        [symbol_id |-> NoCheckId,
         dest_module_name |-> ParentModule(module_split, i - 1),
         source_module_name |->
           IF i - 1 > 0
           THEN OUTPUT_MODULE \o "." \o ParentModule(module_split, i - 1)
           ELSE OUTPUT_MODULE,
         source_name |-> module_split[i],
         dest_name |-> module_split[i]]]

\* the calls made one after the other on a builder, up to the first that raises
RECURSIVE AddAll(_, _)
AddAll(acc, calls) ==
  IF calls = <<>> \/ acc.raised THEN acc
  ELSE LET c == Head(calls)
           r == add_import(acc.self, c.symbol_id, c.dest_module_name,
                           c.source_module_name, c.source_name, c.dest_name)
       IN AddAll([raised |-> r.raised, self |-> r.self,
                  issued |-> Append(acc.issued, c)],
                 Tail(calls))

InitScan ==
  /\ builder = NewBuilder
  /\ call = NoCall
  /\ module_text_map = <<>>
  /\ ok_ids = <<>>
  /\ ok_imports = <<>>
  /\ added = <<>>
  /\ runs = [i \in {1, 2} |-> NewRun]
  /\ sys_modules \in {ms \in SUBSET ModulePool : Cardinality(ms) <= MaxModules}
  /\ module_filter \in ModuleFilters
  /\ scan = [IdleScan EXCEPT !.pc = "modules", !.todo = sys_modules]
  /\ output_files = <<>>
  /\ fs = EmptyFs
  /\ files_run = IdleFilesRun
  /\ fmt = IdleFormat

\* one iteration of: for module in list(sys.modules.values())
ScanModule ==
  /\ scan.pc = "modules"
  /\ \E module \in scan.todo :
       IF Skipped(module, module_filter)
       THEN scan' = [scan EXCEPT !.todo = scan.todo \ {module}]
       ELSE LET r == AddAll([raised |-> FALSE, self |-> scan.builder,
                             issued |-> scan.exports],
                            ModuleCalls(module))
            IN scan' = [scan EXCEPT
                          !.todo = scan.todo \ {module},
                          !.builder = r.self,
                          !.exports = r.issued,
                          !.pc = IF r.raised THEN "raised" ELSE "modules",
                          !.error = IF r.raised THEN "SymbolExposedTwiceError"
                                    ELSE "none"]
  /\ UNCHANGED <<builder_vars, runs, sys_modules, module_filter, file_vars, fmt>>

\* imported_modules = set(module_code_builder.module_imports.keys())
CollectImported ==
  /\ scan.pc = "modules"
  /\ scan.todo = {}
  /\ scan' = [scan EXCEPT !.pc = "parents",
                          !.imported_modules = DOMAIN scan.builder.module_imports]
  /\ UNCHANGED <<builder_vars, runs, sys_modules, module_filter, file_vars, fmt>>

\* one iteration of: for module in imported_modules
ImportInParents ==
  /\ scan.pc = "parents"
  /\ \E module \in scan.imported_modules :
       IF module = ""
       THEN scan' = [scan EXCEPT
                       !.imported_modules = scan.imported_modules \ {module}]
       ELSE LET r == AddAll([raised |-> FALSE, self |-> scan.builder,
                             issued |-> scan.parents],
                            ParentCalls(module))
            IN scan' = [scan EXCEPT
                          !.imported_modules = scan.imported_modules \ {module},
                          !.builder = r.self,
                          !.parents = r.issued,
                          !.pc = IF r.raised THEN "raised" ELSE "parents",
                          !.error = IF r.raised THEN "SymbolExposedTwiceError"
                                    ELSE "none"]
  /\ UNCHANGED <<builder_vars, runs, sys_modules, module_filter, file_vars, fmt>>

\* return module_code_builder.build()
ReturnBuild ==
  /\ scan.pc = "parents"
  /\ scan.imported_modules = {}
  /\ LET r == build(scan.builder)
     IN scan' = [scan EXCEPT
                   !.pc = IF r.error = "none" THEN "returned" ELSE "raised",
                   !.result = r.module_text_map,
                   !.error = r.error]
  /\ UNCHANGED <<builder_vars, runs, sys_modules, module_filter, file_vars, fmt>>

NextScan == ScanModule \/ CollectImported \/ ImportInParents \/ ReturnBuild

SpecScan == InitScan /\ [][NextScan]_vars

(***************************************************************************)
(* create_api_files                                                        *)
(***************************************************************************)
API_DIR == "/api/"

GENERATED_FILE_HEADER ==
  "\"\"\"Imports for Python API.\n\nThis file is MACHINE GENERATED! Do not edit.\n"
    \o "Generated by: tensorflow/tools/api/generator/create_python_api.py script.\n"
    \o "\"\"\"\n"

\* paths in the output_files argument
MaxOutputs == 3

\* the paths output_files is drawn from
OutputPool ==
  {"out/api/__init__.py", "out/api/nn/__init__.py",
   "out//api/nn/sub/__init__.py", "out/nn/__init__.py"}

\* the loaded modules of the runs of create_api_files
FilesModulePool == {ModuleB, ModuleC}

\* a file system left behind by an earlier run
StaleFs ==
  [files |-> [p \in {"out/api/__init__.py"} |-> "old"],
   dirs |-> {"out", "out/api"}]

\* the sequences of at most n distinct elements of a set
RECURSIVE DistinctSeqs(_, _)
DistinctSeqs(set, n) ==
  IF n = 0 THEN {<<>>}
  ELSE LET shorter == DistinctSeqs(set, n - 1)
       IN shorter \cup
            {Append(q, x) : <<q, x>> \in
               {<<q, x>> \in shorter \X set :
                  \A i \in 1..Len(q) : q[i] # x}}

\* the module name of an output file
ModuleNameOf(output_file) ==
  LET normalized_output_file == Replace(output_file, OsSep, "/")
      module_dir ==
        Dirname(SubSeq(normalized_output_file,
                       RFind(normalized_output_file, API_DIR) + Len(API_DIR),
                       Len(normalized_output_file)))
  IN Strip(Replace(module_dir, "/", "."), ".")

\* MapOutputs with a slip: a path that is not under /api/ is passed over
RECURSIVE MapOutputs_SkipsInvalid(_, _)
MapOutputs_SkipsInvalid(paths, module_name_to_file_path) ==
  IF paths = <<>>
  THEN [error |-> "none", message |-> "",
        module_name_to_file_path |-> module_name_to_file_path]
  ELSE LET output_file == Head(paths)
       IN IF ~Contains(output_file, API_DIR)
          THEN MapOutputs_SkipsInvalid(Tail(paths), module_name_to_file_path)
          ELSE MapOutputs_SkipsInvalid(Tail(paths),
                 [m \in DOMAIN module_name_to_file_path
                          \cup {ModuleNameOf(output_file)} |->
                    IF m = ModuleNameOf(output_file) THEN Normpath(output_file)
                    ELSE module_name_to_file_path[m]])

\* the first loop of create_api_files: the mapping built from the paths, or
\* the ValueError raised at the first path that is not under /api/
RECURSIVE MapOutputs(_, _)
MapOutputs(paths, module_name_to_file_path) ==
  IF paths = <<>>
  THEN [error |-> "none", message |-> "",
        module_name_to_file_path |-> module_name_to_file_path]
  ELSE LET output_file == Head(paths)
       IN IF ~Contains(output_file, API_DIR)
          THEN [error |-> "ValueError",
                message |-> "Output files must be in api/ directory, found "
                              \o output_file \o ".",
                module_name_to_file_path |-> module_name_to_file_path]
          ELSE MapOutputs(Tail(paths),
                 [m \in DOMAIN module_name_to_file_path
                          \cup {ModuleNameOf(output_file)} |->
                    IF m = ModuleNameOf(output_file) THEN Normpath(output_file)
                    ELSE module_name_to_file_path[m]])

\* the directories os.makedirs(dir) makes sure of
Makedirs(dirs, dir) ==
  dirs \cup {dir}
       \cup {SubSeq(dir, 1, i - 1) : i \in {i \in 2..Len(dir) : CharAt(dir, i) = "/"}}

\* TouchFile with a slip: the file is opened with 'w', which truncates it
TouchFile_Truncate(files, file_path) ==
  [f \in DOMAIN files \cup {file_path} |->
     IF f = file_path THEN "" ELSE files[f]]

\* open(file_path, 'a').close()
TouchFile(files, file_path) ==
  [f \in DOMAIN files \cup {file_path} |->
     IF f \in DOMAIN files THEN files[f] ELSE ""]

\* with open(file_path, 'w') as fp: fp.write(content)
WriteFile(files, file_path, content) ==
  [f \in DOMAIN files \cup {file_path} |->
     IF f = file_path THEN content ELSE files[f]]

\* MissingMessage with a slip: the list is joined as it was collected
MissingMessage_Unsorted(missing_output_files) ==
  "Missing outputs for python_api_gen genrule:\n"
    \o Join(",\n", missing_output_files)
    \o ".Make sure all required outputs are in the "
    \o "tensorflow/tools/api/generator/BUILD file."

\* the message of the ValueError for the missing outputs
MissingMessage(missing_output_files) ==
  "Missing outputs for python_api_gen genrule:\n"
    \o Join(",\n", SortedValues(missing_output_files,
                                 DOMAIN missing_output_files))
    \o ".Make sure all required outputs are in the "
    \o "tensorflow/tools/api/generator/BUILD file."

InitFiles ==
  /\ builder = NewBuilder
  /\ call = NoCall
  /\ module_text_map = <<>>
  /\ ok_ids = <<>>
  /\ ok_imports = <<>>
  /\ added = <<>>
  /\ runs = [i \in {1, 2} |-> NewRun]
  /\ sys_modules \in SUBSET FilesModulePool
  /\ module_filter = "tensorflow."
  /\ scan = IdleScan
  /\ output_files \in DistinctSeqs(OutputPool, MaxOutputs)
  /\ fs \in {EmptyFs, StaleFs}
  /\ files_run = [IdleFilesRun EXCEPT !.pc = "validate", !.fs_before = fs]
  /\ fmt = IdleFormat

\* the loop that fills module_name_to_file_path
MapOutputFiles ==
  /\ files_run.pc = "validate"
  /\ LET r == MapOutputs(output_files, <<>>)
     IN files_run' =
          [files_run EXCEPT
             !.pc = IF r.error = "none" THEN "create" ELSE "raised",
             !.error = r.error,
             !.message = r.message,
             !.module_name_to_file_path = r.module_name_to_file_path,
             !.to_create = DOMAIN r.module_name_to_file_path]
  /\ UNCHANGED <<builder_vars, runs, scan_vars, output_files, fs, fmt>>

\* one iteration of the loop that creates the expected output files
CreateFile ==
  /\ files_run.pc = "create"
  /\ \E module \in files_run.to_create :
       LET file_path == files_run.module_name_to_file_path[module]
       IN /\ fs' = [files |-> TouchFile(fs.files, file_path),
                    dirs |-> IF Dirname(file_path) \notin fs.dirs
                             THEN Makedirs(fs.dirs, Dirname(file_path))
                             ELSE fs.dirs]
          /\ files_run' = [files_run EXCEPT
                             !.to_create = files_run.to_create \ {module}]
  /\ UNCHANGED <<builder_vars, runs, scan_vars, output_files, fmt>>

\* module_text_map = get_api_init_text(module_filter): the call
CallGetApiInitText ==
  /\ files_run.pc = "create"
  /\ files_run.to_create = {}
  /\ files_run' = [files_run EXCEPT !.pc = "generate"]
  /\ scan' = [IdleScan EXCEPT !.pc = "modules", !.todo = sys_modules]
  /\ UNCHANGED <<builder_vars, runs, sys_modules, module_filter, output_files, fs, fmt>>

\* get_api_init_text raised: the exception leaves create_api_files
GenerationRaised ==
  /\ files_run.pc = "generate"
  /\ scan.pc = "raised"
  /\ files_run' = [files_run EXCEPT !.pc = "raised", !.error = scan.error]
  /\ UNCHANGED <<builder_vars, runs, scan_vars, output_files, fs, fmt>>

\* get_api_init_text returned: module_text_map is bound
GenerationReturned ==
  /\ files_run.pc = "generate"
  /\ scan.pc = "returned"
  /\ files_run' = [files_run EXCEPT !.pc = "write",
                                    !.module_text_map = scan.result,
                                    !.to_write = DOMAIN scan.result,
                                    !.missing_output_files = <<>>]
  /\ UNCHANGED <<builder_vars, runs, scan_vars, output_files, fs, fmt>>

\* one iteration of the loop that adds the imports to the output files
WriteModule ==
  /\ files_run.pc = "write"
  /\ \E module \in files_run.to_write :
       IF module \notin DOMAIN files_run.module_name_to_file_path
       THEN /\ files_run' =
                 [files_run EXCEPT
                    !.to_write = files_run.to_write \ {module},
                    !.missing_output_files =
                       Append(files_run.missing_output_files,
                              "\"api/" \o Replace(module, ".", "/")
                                \o "/__init__.py\"")]
            /\ UNCHANGED fs
       ELSE /\ fs' = [fs EXCEPT !.files =
                        WriteFile(fs.files,
                                  files_run.module_name_to_file_path[module],
                                  GENERATED_FILE_HEADER
                                    \o files_run.module_text_map[module])]
            /\ files_run' = [files_run EXCEPT
                               !.to_write = files_run.to_write \ {module}]
  /\ UNCHANGED <<builder_vars, runs, scan_vars, output_files, fmt>>

\* the end of create_api_files: the ValueError for the missing outputs, if any
FinishFiles ==
  /\ files_run.pc = "write"
  /\ files_run.to_write = {}
  /\ files_run' =
       IF files_run.missing_output_files # <<>>
       THEN [files_run EXCEPT
               !.pc = "raised",
               !.error = "ValueError",
               !.message = MissingMessage(files_run.missing_output_files)]
       ELSE [files_run EXCEPT !.pc = "done"]
  /\ UNCHANGED <<builder_vars, runs, scan_vars, output_files, fs, fmt>>

NextFiles ==
  \/ MapOutputFiles
  \/ CreateFile
  \/ CallGetApiInitText
  \/ ScanModule
  \/ CollectImported
  \/ ImportInParents
  \/ ReturnBuild
  \/ GenerationRaised
  \/ GenerationReturned
  \/ WriteModule
  \/ FinishFiles

SpecFiles == InitFiles /\ [][NextFiles]_vars

(***************************************************************************)
(* Calls of format_import on its own.                                      *)
(***************************************************************************)
\* the arguments format_import is called with
FormatModules == {"", "m", "pkg.mod", "tensorflow.tools.api.generator.api"}
FormatNames == {"X", "Xs", "_y", "f"}

InitFormat ==
  /\ builder = NewBuilder
  /\ call = NoCall
  /\ module_text_map = <<>>
  /\ ok_ids = <<>>
  /\ ok_imports = <<>>
  /\ added = <<>>
  /\ runs = [i \in {1, 2} |-> NewRun]
  /\ sys_modules = {}
  /\ module_filter = ""
  /\ scan = IdleScan
  /\ output_files = <<>>
  /\ fs = EmptyFs
  /\ files_run = IdleFilesRun
  /\ fmt \in [pc : {"call"}, source_module_name : FormatModules,
              source_name : FormatNames, dest_name : FormatNames, result : {""}]

\* format_import(source_module_name, source_name, dest_name) returns
FormatImport ==
  /\ fmt.pc = "call"
  /\ fmt' = [fmt EXCEPT
               !.pc = "returned",
               !.result = format_import(fmt.source_module_name, fmt.source_name,
                                        fmt.dest_name)]
  /\ UNCHANGED <<builder_vars, runs, scan_vars, file_vars>>

NextFormat == FormatImport

SpecFormat == InitFormat /\ [][NextFormat]_vars

(***************************************************************************)
(* Properties of add_import.                                               *)
(***************************************************************************)
RealIds == SymbolIds \ {NoCheckId}

\* does builder.add_import(symbol_id, dest, ...) raise in the current state,
\* whatever the source it names
Raises(symbol_id, dest) ==
  \A source_module_name \in SourceModules, source_name \in SourceNames :
    add_import(builder, symbol_id, dest[1], source_module_name, source_name,
               dest[2]).raised

Succeeds(symbol_id, dest) ==
  \A source_module_name \in SourceModules, source_name \in SourceNames :
    ~add_import(builder, symbol_id, dest[1], source_module_name, source_name,
                dest[2]).raised

NameOf(dest) == FullApiName(dest[1], dest[2])

\* C1: no fully-qualified name is ever successfully added under two different
\* real symbol ids: once an add of real id1 to a name succeeded, every add of
\* another real id2 to that name raises, whatever was added in between
\* (adds of the -1 sentinel to the name included).
C1_NoTwoRealIdsUnderOneName ==
  \A dest \in Dests :
    NameOf(dest) \in DOMAIN ok_ids =>
      /\ Cardinality(ok_ids[NameOf(dest)] \ {NoCheckId}) <= 1
      /\ \A id1 \in ok_ids[NameOf(dest)] \ {NoCheckId} :
           \A id2 \in RealIds \ {id1} : Raises(id2, dest)

\* a real id and then the sentinel were added to a name, the sentinel is what
\* is recorded for it, and the add that followed raised
C1_Witness ==
  \E dest \in Dests :
    /\ NameOf(dest) \in DOMAIN ok_ids
    /\ ok_ids[NameOf(dest)] = {1, NoCheckId}
    /\ builder.dest_import_to_id[NameOf(dest)] = NoCheckId
    /\ call = [op |-> "add_import", error |-> "SymbolExposedTwiceError"]

\* C2: add_import raises only when the id recorded for the name and the id of
\* the call are both real and differ.
C2_RaisesOnlyForTwoRealIds ==
  \A symbol_id \in SymbolIds, dest \in Dests :
    ~Succeeds(symbol_id, dest) =>
      /\ NameOf(dest) \in DOMAIN builder.dest_import_to_id
      /\ builder.dest_import_to_id[NameOf(dest)] # NoCheckId
      /\ symbol_id # NoCheckId
      /\ symbol_id # builder.dest_import_to_id[NameOf(dest)]

\* C4: an add of a real id to a name to which that id was already
\* successfully added succeeds, whatever was successfully added in between.
C4_SameIdAgainSucceeds ==
  \A dest \in Dests :
    NameOf(dest) \in DOMAIN ok_ids =>
      \A symbol_id \in ok_ids[NameOf(dest)] \ {NoCheckId} :
        Succeeds(symbol_id, dest)

\* C5: an add that carries the -1 sentinel never raises, in any state of the
\* builder and for any destination name.
C5_SentinelNeverRaises ==
  \A dest \in Dests : Succeeds(NoCheckId, dest)

\* three sentinel adds, under two spellings, share one name
C5_Witness ==
  /\ call = [op |-> "add_import", error |-> "none"]
  /\ \E dest \in Dests :
       /\ NameOf(dest) \in DOMAIN ok_ids
       /\ ok_ids[NameOf(dest)] = {NoCheckId}
       /\ Cardinality(ok_imports[<<dest[1], NameOf(dest)>>]) = 2
       /\ added = <<dest, dest, dest>>

(***************************************************************************)
(* Properties of build.                                                    *)
(***************************************************************************)
Built == call = [op |-> "build", error |-> "none"]

\* the smallest string of a set, by code points
Smallest(strings) ==
  CHOOSE s \in strings : \A t \in strings : ~StrLess(t, s)

\* the full names that were successfully added to destination module m
NamesAddedTo(m) == {key \in DOMAIN ok_imports : key[1] = m}

\* the destination modules that were successfully added to
ModulesAddedTo == {key[1] : key \in DOMAIN ok_imports}

\* the statements the tie-break law selects for module m, in ascending order
SmallestStatements(m) ==
  LET smallest == [key \in NamesAddedTo(m) |-> Smallest(ok_imports[key])]
  IN SortedValues(smallest, NamesAddedTo(m))

\* C6: tie-break law: for every destination module and every name in it, the
\* statement build() emits for the name is the lexicographically smallest of
\* all import statements the successful adds contributed to that name
\* (all spellings retained), whatever the order of the adds.
C6_SmallestSpellingWins ==
  Built =>
    /\ DOMAIN module_text_map = ModulesAddedTo
    /\ \A m \in DOMAIN module_text_map :
         module_text_map[m] =
           Join("\n", SmallestStatements(m))
             \o (IF m = "" THEN Epilogue(builder.underscore_names_in_root)
                 ELSE "")

\* build() returned while some name has two spellings to choose from
C6_Witness ==
  /\ Built
  /\ \E key \in DOMAIN ok_imports : Cardinality(ok_imports[key]) = 2

\* the destination names of the successful adds to the root module that
\* start with an underscore, in call order, duplicates kept
RECURSIVE UnderscoreRootNames(_)
UnderscoreRootNames(dests) ==
  IF dests = <<>> THEN <<>>
  ELSE (IF Head(dests)[1] = "" /\ SubSeq(Head(dests)[2], 1, 1) = "_"
        THEN <<Head(dests)[2]>> ELSE <<>>)
       \o UnderscoreRootNames(Tail(dests))

\* names as a comma-separated sequence of quoted literals
RECURSIVE Literals(_)
Literals(names) ==
  IF names = <<>> THEN ""
  ELSE "'" \o Head(names) \o "'"
       \o (IF Tail(names) = <<>> THEN "" ELSE ", ")
       \o Literals(Tail(names))

\* C8: underscore epilogue: the root text returned by build() ends with the
\* epilogue whose _names_with_underscore list holds, as quoted literals,
\* exactly the destination names of the successful adds that had an empty
\* destination module and a name starting with '_', one entry per add, in
\* call order; no other add contributes to the list.
C8_UnderscoreEpilogue ==
  Built =>
    EndsWith(module_text_map[""],
       "\n_names_with_underscore = [" \o Literals(UnderscoreRootNames(added))
       \o "]\n__all__ = [s for s in dir() if not s.startswith('_')]\n"
       \o "__all__.extend([s for s in _names_with_underscore])\n")

\* build() returned after two underscore names were added to the root, the
\* larger first, and an underscore name was added to another module
C8_Witness ==
  /\ Built
  /\ UnderscoreRootNames(added) = <<"_z", "_y">>
  /\ \E i \in 1..Len(added) : added[i] = <<"nn", "_y">>

\* the body of destination module m in the returned mapping: for the root
\* module, the text before the epilogue
BodyOf(m) ==
  LET text == module_text_map[m]
      at == RFind(text, "\n_names_with_underscore = [")
  IN IF m = "" /\ at # 0 THEN SubSeq(text, 1, at - 1) ELSE text

\* C14: module body shape: the mapping build() returns has exactly one entry
\* per destination module that received a successful add_import, and the body
\* of each entry (before the root epilogue) is one import statement per
\* distinct full name added to the module, in strictly ascending
\* lexicographic order, joined by single newlines.
C14_ModuleBodyShape ==
  Built =>
    /\ DOMAIN module_text_map = ModulesAddedTo
    /\ \A m \in DOMAIN module_text_map :
         LET lines == SplitOn(BodyOf(m), "\n")
         IN /\ Len(lines) = Cardinality(NamesAddedTo(m))
            /\ \A key \in NamesAddedTo(m) :
                 Cardinality({i \in 1..Len(lines) :
                                lines[i] \in ok_imports[key]}) = 1
            /\ \A i \in 1..(Len(lines) - 1) : StrLess(lines[i], lines[i + 1])
            /\ module_text_map[m] =
                 BodyOf(m) \o (IF m = ""
                               THEN Epilogue(builder.underscore_names_in_root)
                               ELSE "")

\* build() returned a root body of two statements for two names, one of
\* which had two spellings, the name added first sorting last
C14_Witness ==
  /\ Built
  /\ added[1] = <<"", "_y">>
  /\ Cardinality(NamesAddedTo("")) = 2
  /\ Cardinality(ok_imports[<<"", "X">>]) = 2
  /\ BodyOf("") = "from k import X\nfrom m import X as _y"

\* C9: build() completes without error in every state add_import calls can
\* reach, the state without any add to the root module included, and the
\* mapping it returns has an entry for the root module.
C9_BuildNeverFails ==
  call.op = "build" =>
    /\ call.error = "none"
    /\ "" \in DOMAIN module_text_map

(***************************************************************************)
(* Properties of get_api_init_text.                                        *)
(***************************************************************************)
\* text has the line statement
HasLine(text, statement) ==
  Contains("\n" \o text \o "\n", "\n" \o statement \o "\n")

\* the destination module paths that received an export
ExportedModules ==
  {scan.exports[i].dest_module_name : i \in 1..Len(scan.exports)} \ {""}

\* the first k segments of a dotted path, joined again
Prefix(segments, k) == Join(".", SubSeq(segments, 1, k))

\* C7: parent-chain completeness: after get_api_init_text, for every
\* non-empty destination module path that received an export and every
\* segment s of it with parent prefix p, the result has an entry for p whose
\* text contains 'from tensorflow.tools.api.generator.api[.p] import s'.
C7_ParentChainComplete ==
  scan.pc = "returned" =>
    \A module \in ExportedModules :
      LET segments == SplitDots(module)
      IN \A k \in 1..Len(segments) :
           LET p == Prefix(segments, k - 1)
           IN /\ p \in DOMAIN scan.result
              /\ HasLine(scan.result[p],
                         "from tensorflow.tools.api.generator.api"
                           \o (IF p = "" THEN "" ELSE "." \o p)
                           \o " import " \o segments[k])

(***************************************************************************)
(* Properties of create_api_files.                                         *)
(***************************************************************************)
\* the run has failed with the symbol-conflict error
FailedOnConflict ==
  files_run.pc = "raised" /\ files_run.error = "SymbolExposedTwiceError"

\* the paths registered for the output files of the run
RegisteredPaths ==
  {files_run.module_name_to_file_path[m] :
     m \in DOMAIN files_run.module_name_to_file_path}

\* C10 as stated: when a run fails with the symbol-conflict error no output
\* file has been created or modified by it: the files are those from before
\* the run, with their content.
C10_NoFileOnConflict ==
  FailedOnConflict => fs.files = files_run.fs_before.files

\* C10, amended: when a run fails with the symbol-conflict error, every
\* registered output file exists, created empty if it did not exist and with
\* its content untouched otherwise, and no other file has changed; generated
\* text is in a file only if the aggregation of the run succeeded.
C10_NoTextOnConflict ==
  /\ FailedOnConflict =>
       /\ DOMAIN fs.files = DOMAIN files_run.fs_before.files \cup RegisteredPaths
       /\ \A f \in DOMAIN fs.files :
            fs.files[f] = IF f \in DOMAIN files_run.fs_before.files
                          THEN files_run.fs_before.files[f] ELSE ""
  /\ (\E f \in DOMAIN fs.files : StartsWith(fs.files[f], GENERATED_FILE_HEADER))
       => scan.pc = "returned"

\* a run over an earlier run's file and a new one failed on the conflict
C10_Witness ==
  /\ FailedOnConflict
  /\ files_run.fs_before = StaleFs
  /\ RegisteredPaths = {"out/api/__init__.py", "out/api/nn/__init__.py"}
  /\ fs.files["out/api/nn/__init__.py"] = ""
  /\ fs.files["out/api/__init__.py"] = "old"

\* the run has failed with the ValueError for missing outputs
FailedOnMissingOutputs ==
  /\ files_run.pc = "raised"
  /\ files_run.error = "ValueError"
  /\ StartsWith(files_run.message, "Missing outputs")

\* the generated destination modules without a registered output path
MissingModules ==
  DOMAIN scan.result \ DOMAIN files_run.module_name_to_file_path

\* the strings of a set in ascending order, each once
Ascending(strings) == SortedValues([x \in strings |-> x], strings)

\* C11: when generated destination modules have no registered output path,
\* create_api_files raises one ValueError, only after every generated module
\* has been examined (the registered ones are written by then), and the
\* error lists every such module exactly once, in sorted order.
C11_AllMissingOutputsReported ==
  /\ (files_run.pc = "done" /\ scan.pc = "returned") => MissingModules = {}
  /\ FailedOnMissingOutputs =>
       /\ scan.pc = "returned"
       /\ MissingModules # {}
       /\ files_run.to_write = {}
       /\ \A m \in DOMAIN scan.result \ MissingModules :
            fs.files[files_run.module_name_to_file_path[m]]
              = GENERATED_FILE_HEADER \o scan.result[m]
       /\ files_run.message =
            "Missing outputs for python_api_gen genrule:\n"
              \o Join(",\n",
                      Ascending({"\"api/" \o Replace(m, ".", "/")
                                   \o "/__init__.py\"" : m \in MissingModules}))
              \o ".Make sure all required outputs are in the "
              \o "tensorflow/tools/api/generator/BUILD file."

\* a run wrote one module and failed on the two that have no output path,
\* which it had met in descending order
C11_Witness ==
  /\ FailedOnMissingOutputs
  /\ Cardinality(MissingModules) = 2
  /\ StrLess(files_run.missing_output_files[2],
             files_run.missing_output_files[1])
  /\ \E f \in DOMAIN fs.files : StartsWith(fs.files[f], GENERATED_FILE_HEADER)

\* some path of output_files is not under the /api/ output root
SomeOutputOutsideApi ==
  \E i \in 1..Len(output_files) : RFind(output_files[i], "/api/") = 0

\* C12: if any path in output_files is not under '/api/', create_api_files
\* raises ValueError before any output file is created or written and before
\* the namespace scan and the aggregation start, wherever the path is in the
\* list.
C12_InvalidLocationBeforeAnyWork ==
  (SomeOutputOutsideApi /\ files_run.pc \notin {"idle", "validate"}) =>
    /\ files_run.pc = "raised"
    /\ files_run.error = "ValueError"
    /\ StartsWith(files_run.message, "Output files must be in api/ directory")
    /\ fs = files_run.fs_before
    /\ scan = IdleScan

\* the run raised for an offending path that comes last, after two valid ones
C12_Witness ==
  /\ files_run.pc = "raised"
  /\ files_run.error = "ValueError"
  /\ Len(output_files) = 3
  /\ output_files[3] = "out/nn/__init__.py"
  /\ files_run.fs_before = StaleFs

(***************************************************************************)
(* Properties of format_import.                                            *)
(***************************************************************************)
\* C13: format_import returns, for every (source_module_name, source_name,
\* dest_name): 'from M import S' when M is non-empty and S = D; 'from M
\* import S as D' when M is non-empty and S # D; 'import S' when M is empty
\* and S = D; 'import S as D' when M is empty and S # D; and it changes
\* nothing else.
C13_FormatImportCases ==
  fmt.pc = "returned" =>
    LET M == fmt.source_module_name
        S == fmt.source_name
        D == fmt.dest_name
    IN /\ (M # "" /\ S = D) => fmt.result = "from " \o M \o " import " \o S
       /\ (M # "" /\ S # D) =>
            fmt.result = "from " \o M \o " import " \o S \o " as " \o D
       /\ (M = "" /\ S = D) => fmt.result = "import " \o S
       /\ (M = "" /\ S # D) => fmt.result = "import " \o S \o " as " \o D
       /\ builder = NewBuilder /\ scan = IdleScan /\ fs = EmptyFs

\* format_import returned for an empty source module and an alias
C13_Witness ==
  /\ fmt.pc = "returned"
  /\ fmt.source_module_name = ""
  /\ fmt.source_name = "f"
  /\ fmt.dest_name = "_y"
  /\ fmt.result = "import f as _y"

(***************************************************************************)
(* Properties of the loop over sys.modules.                                *)
(***************************************************************************)
\* p occurs in s
Occurs(s, p) ==
  \E i \in 1..(Len(s) - Len(p) + 1) : SubSeq(s, i, i + Len(p) - 1) = p

\* the modules the scan may translate
Eligible(module) ==
  /\ module.has_name
  /\ Occurs(module.name, module_filter)
  /\ ~Occurs(module.name, ".contrib.")
  /\ ~(Len(module.name) >= 8
       /\ SubSeq(module.name, Len(module.name) - 7, Len(module.name)) = ".contrib")

\* the four arguments the add made for one export path should have
Translated(symbol_id, module, export) ==
  LET dot == RFind(export, ".")
  IN [symbol_id |-> symbol_id,
      dest_module_name |-> IF dot = 0 THEN "" ELSE SubSeq(export, 1, dot - 1),
      dest_name |-> SubSeq(export, dot + 1, Len(export)),
      source_module_name |-> module.name]

\* the same four arguments of an add that was made
Claimed(c) ==
  [symbol_id |-> c.symbol_id,
   dest_module_name |-> c.dest_module_name,
   dest_name |-> c.dest_name,
   source_module_name |-> c.source_module_name]

\* the export paths of a module: <<attribute, entry, position>>, with the add
\* each should yield
ConstantPaths(module) ==
  IF API_CONSTANTS_ATTR \in DOMAIN module.attrs
  THEN LET attr == module.attrs[API_CONSTANTS_ATTR]
       IN {[at |-> <<module.name, API_CONSTANTS_ATTR, ij[1], ij[2]>>,
            add |-> Translated(NoCheckId, module, attr[ij[1]].exports[ij[2]])] :
             ij \in UNION {{<<i, j>> : j \in 1..Len(attr[i].exports)} :
                             i \in 1..Len(attr)}}
  ELSE {}

SymbolPaths(module) ==
  UNION {LET obj == module.attrs[n].target
         IN IF obj.has_api_names
            THEN {[at |-> <<module.name, n, 1, j>>,
                   add |-> Translated(obj.id, module, obj.tf_api_names[j])] :
                    j \in 1..Len(obj.tf_api_names)}
            ELSE {} :
         n \in DOMAIN module.attrs \ {API_CONSTANTS_ATTR}}

\* the loop over sys.modules was left by an exception of add_import
ScanAborted ==
  scan.pc = "raised" /\ scan.error = "SymbolExposedTwiceError" /\ scan.parents = <<>>

\* C15: scanner filtering and translation: the loop over sys.modules issues
\* add_import calls only for modules whose name contains the filter and
\* neither contains '.contrib.' nor ends with '.contrib'; for each such module
\* it has visited, each constant export path yields one add with the -1
\* sentinel and each annotated-symbol export path one add with the identity
\* of the unwrapped object, with destination module = all path segments but
\* the last, destination name = the last segment and source module = the
\* scanned module's name (adds after one that raised are not made).
C15_ScanTranslatesEligibleModules ==
  LET visited == {m \in sys_modules \ scan.todo : Eligible(m)}
      paths == UNION {ConstantPaths(m) \cup SymbolPaths(m) : m \in visited}
      issued == {Claimed(scan.exports[i]) : i \in 1..Len(scan.exports)}
      Made(r) == Cardinality({i \in 1..Len(scan.exports) :
                                Claimed(scan.exports[i]) = r})
      Due(r) == Cardinality({q \in paths : q.add = r})
  IN \A r \in issued \cup {q.add : q \in paths} :
       IF ScanAborted THEN Made(r) <= Due(r) ELSE Made(r) = Due(r)

\* the loop finished over a module with constants and a decorated symbol, a
\* module named '<x>.contrib' and a module the filter excludes
C15_Witness ==
  /\ sys_modules = {ModuleA, ModuleContrib, ModuleNumpy}
  /\ module_filter = "tensorflow."
  /\ scan.pc = "parents"
  /\ Len(scan.exports) = 3
  /\ \E i \in 1..3 : /\ scan.exports[i].symbol_id = 1
                     /\ scan.exports[i].dest_module_name = "nn.sub"
  /\ \E i \in 1..3 : /\ scan.exports[i].symbol_id = NoCheckId
                     /\ scan.exports[i].dest_module_name = "a.b.c"
                     /\ scan.exports[i].dest_name = "K"

(***************************************************************************)
(* Frame properties of the builder.                                        *)
(***************************************************************************)
\* C16: build() only reads the builder: a build() step leaves module_imports,
\* _dest_import_to_id and _underscore_names_in_root unchanged, a build() that
\* follows a build() returns the same mapping, and every step that changes
\* the builder is an add_import.
C16_BuildOnlyReads ==
  [][/\ call'.op = "build" => builder' = builder
     /\ (call.op = "build" /\ call'.op = "build") =>
          (module_text_map' = module_text_map /\ call'.error = call.error)
     /\ builder' # builder => call'.op = "add_import"]_vars

\* build() returned for a builder with two destination modules and two
\* underscore names in the root, and calling it again returns the same mapping
C16_Witness ==
  /\ Built
  /\ DOMAIN builder.module_imports = {"", "nn"}
  /\ Len(builder.underscore_names_in_root) = 2
  /\ build(builder).module_text_map = module_text_map

\* C17: a failed add is atomic: a call of add_import that raises
\* SymbolExposedTwiceError leaves the builder as it was: the id recorded for
\* the name, the candidate sets, the destination-module entries and the
\* underscore-name list are those before the call.
C17_FailedAddIsAtomic ==
  [][(call'.op = "add_import" /\ call'.error = "SymbolExposedTwiceError") =>
       /\ builder'.dest_import_to_id = builder.dest_import_to_id
       /\ builder'.module_imports = builder.module_imports
       /\ DOMAIN builder'.module_imports = DOMAIN builder.module_imports
       /\ builder'.underscore_names_in_root = builder.underscore_names_in_root]_vars

\* an add raised on a builder that holds an id for the name and has no entry
\* for every destination module, and the id is still the one recorded first
C17_Witness ==
  /\ call = [op |-> "add_import", error |-> "SymbolExposedTwiceError"]
  /\ \E n \in DOMAIN builder.dest_import_to_id :
       /\ builder.dest_import_to_id[n] = 1
       /\ ok_ids[n] = {1}
  /\ Cardinality(DOMAIN builder.module_imports) = 1

====
